---- MODULE Spec2Model ----
(***************************************************************************)
(* A model of BitStream.c: a bit-addressable buffer (BitStream object with *)
(* a heap-allocated byte array and a 16-bit bit count), its put/get of up  *)
(* to 8 bits at an arbitrary bit offset, the byte fill loop, and the       *)
(* ASCII-hex decoder (xtoi, strtox, BitStreamFillAscii).                   *)
(*                                                                         *)
(* Bytes are integers 0..255, the 16-bit fields are integers 0..65535 and  *)
(* every C conversion to a narrower type is written as an explicit         *)
(* reduction (U8, U16).  A storage block is its size in bytes and the map  *)
(* of its non-zero bytes (index -> 1..255); every other byte is zero.      *)
(***************************************************************************)
EXTENDS Integers, Sequences, FiniteSets, TLC

VARIABLES
    bs,         \* the caller's BitStream pointer: "null", "live" or "freed"
    array,      \* bs->array: NULL (0) or the id of a heap block
    nbits,      \* bs->nbits (uint16_t)
    heap,       \* heap blocks: [live |-> BOOLEAN, bytes |-> storage]
    status,     \* "ok", "abort" (assert fired) or "ub" (undefined behaviour)
    out,        \* the caller's byte that BitStreamGetByte stores into
    pc,         \* "idle", or "fill" while BitStreamFill's loop is running
    bitsCopied, \* BitStreamFill's uint16_t counter
    inp,        \* BitStreamFill's source pointer, as an index into the source
    src,        \* the source bytes the caller hands to BitStreamFill
    last        \* record of the last call: arguments, result, what it touched

vars == <<bs, array, nbits, heap, status, out, pc, bitsCopied, inp, src, last>>

(***************************************************************************)
(* Bounds of the model.                                                    *)
(***************************************************************************)
\* Largest bit length of the buffers of the put/get specification.
MaxBits == 12
\* Longest hex text enumerated exhaustively by the decode specification.
MaxHexLen == 4
\* Number of heap blocks of the allocation specification.
MaxBlocks == 2
\* Largest small bit length of the fill specification.
MaxFillBits == 17
\* Loop iterations of BitStreamFill followed past the wrap of its counter.
MaxOverrun == 3

(***************************************************************************)
(* Machine arithmetic.                                                     *)
(***************************************************************************)
BITS_PER_BYTE == 8
NULL == 0

U8(x) == x % 256
U16(x) == x % (2^16)

RECURSIVE BitAnd(_, _)
BitAnd(a, b) ==
    IF a = 0 \/ b = 0 THEN 0
    ELSE (a % 2) * (b % 2) + 2 * BitAnd(a \div 2, b \div 2)

BitOr(a, b) == a + b - BitAnd(a, b)

\* x & ~mask for a byte x and a uint8_t mask (the promoted ~mask keeps
\* exactly the byte's bits outside mask).
AndNot(x, mask) == BitAnd(x, 255 - mask)

Shl(a, k) == a * (2^k)
Shr(a, k) == a \div (2^k)

MIN(a, b) == IF a < b THEN a ELSE b

DECL_BYTE_OFFSET(offset) == offset \div BITS_PER_BYTE
DECL_BITS_OFFSET(offset) == offset % BITS_PER_BYTE

\* (nbits + BITS_PER_BYTE - 1)/BITS_PER_BYTE: bytes of storage for nbits bits.
ByteCount(n) == (n + BITS_PER_BYTE - 1) \div BITS_PER_BYTE

(***************************************************************************)
(* Storage: the bytes of one heap block.                                   *)
(***************************************************************************)
NoBytes == [size |-> 0, nz |-> [k \in {} |-> 0]]

\* calloc'ed storage of size bytes.
Zeroed(size) == [size |-> size, nz |-> [k \in {} |-> 0]]

\* Storage of size bytes, every byte v.
Filled(size, v) ==
    [size |-> size, nz |-> [k \in (IF v = 0 THEN {} ELSE 0..(size - 1)) |-> v]]

InBounds(a, i) == i >= 0 /\ i < a.size

\* a[i]
Rd(a, i) == IF i \in DOMAIN a.nz THEN a.nz[i] ELSE 0

\* a[i] = v
Wr(a, i, v) ==
    [a EXCEPT !.nz =
        [k \in (IF v = 0 THEN DOMAIN a.nz \ {i} ELSE DOMAIN a.nz \cup {i}) |->
            IF k = i THEN v ELSE a.nz[k]]]

\* Bit p of the storage, bit 0 being the most significant bit of byte 0.
BitAt(a, p) ==
    (Rd(a, p \div BITS_PER_BYTE) \div (2^(BITS_PER_BYTE - 1 - (p % BITS_PER_BYTE)))) % 2

(***************************************************************************)
(* BitStreamPutByte.                                                       *)
(***************************************************************************)
\* mask = (0xFF >> j) & (0xFF << (BITS_PER_BYTE - (j + curBits))), as uint8_t
PutFirstMask_NoLowEdge(j, curBits) == U8(Shr(255, j))
PutFirstMask(j, curBits) ==
    U8(BitAnd(Shr(255, j), Shl(255, BITS_PER_BYTE - (j + curBits))))

\* mask = 0xFF << (BITS_PER_BYTE - curBits), as uint8_t
PutSecondMask(curBits) == U8(Shl(255, BITS_PER_BYTE - curBits))

\* The call on storage a (NoBytes for a NULL array).  ub: a byte outside
\* the storage is accessed.
PutByte(a, byte0, offset, n) ==
    LET i == DECL_BYTE_OFFSET(offset)
        j == DECL_BITS_OFFSET(offset)
        byte1 == IF n < 8 THEN U8(Shl(byte0, BITS_PER_BYTE - n)) ELSE byte0
        cur1 == MIN(BITS_PER_BYTE - j, n)
        mask1 == PutFirstMask(j, cur1)
        byte2 == U8(Shl(byte1, cur1))
        cur2 == n - cur1
        mask2 == PutSecondMask(cur2)
    IN  IF ~InBounds(a, i)
        THEN [a |-> a, ret |-> 0, written |-> {}, ub |-> TRUE]
        ELSE LET a1 == Wr(a, i, BitOr(AndNot(Rd(a, i), mask1),
                                      BitAnd(Shr(byte1, j), mask1)))
             IN  IF cur1 < n
                 THEN IF ~InBounds(a, i + 1)
                      THEN [a |-> a1, ret |-> cur1, written |-> {i}, ub |-> TRUE]
                      ELSE [a |-> Wr(a1, i + 1, BitOr(AndNot(Rd(a1, i + 1), mask2),
                                                      BitAnd(byte2, mask2))),
                            ret |-> U16(cur1 + cur2),
                            written |-> {i, i + 1},
                            ub |-> FALSE]
                 ELSE [a |-> a1, ret |-> cur1, written |-> {i}, ub |-> FALSE]

(***************************************************************************)
(* BitStreamGetByte.                                                       *)
(***************************************************************************)
\* if (offset + nbits > bs->nbits) return (0);   the sum is an int
GetOutOfRange_Wraps(offset, n, len) == U16(offset + n) > len
GetOutOfRange(offset, n, len) == offset + n > len

GetFirstMask(j, curBits) ==
    U8(BitAnd(Shr(255, j), Shl(255, BITS_PER_BYTE - (j + curBits))))

GetSecondMask(curBits) == U8(Shl(255, BITS_PER_BYTE - curBits))

\* (bs->array[i + 1] & mask) >> (BITS_PER_BYTE - j)
GetSecondPart_ShiftByWidth(x, mask, j, cur2) ==
    Shr(BitAnd(x, mask), BITS_PER_BYTE - cur2)
GetSecondPart(x, mask, j, cur2) == Shr(BitAnd(x, mask), BITS_PER_BYTE - j)

\* The call on storage a with bs->nbits = len; byte0 is the caller's byte
\* before the call.
GetByte(a, len, byte0, offset, n) ==
    LET i == DECL_BYTE_OFFSET(offset)
        j == DECL_BITS_OFFSET(offset)
        cur1 == MIN(BITS_PER_BYTE - j, n)
        mask1 == GetFirstMask(j, cur1)
        cur2 == n - cur1
        mask2 == GetSecondMask(cur2)
        align(b) == IF n < 8 THEN Shr(b, BITS_PER_BYTE - n) ELSE b
    IN  IF GetOutOfRange(offset, n, len)
        THEN [ret |-> 0, byte |-> byte0, reads |-> {}, ub |-> FALSE]
        ELSE IF ~InBounds(a, i)
        THEN [ret |-> 0, byte |-> byte0, reads |-> {i}, ub |-> TRUE]
        ELSE LET b1 == U8(Shl(BitAnd(Rd(a, i), mask1), j))
             IN  IF cur1 < n
                 THEN IF ~InBounds(a, i + 1)
                      THEN [ret |-> cur1, byte |-> b1, reads |-> {i, i + 1}, ub |-> TRUE]
                      ELSE [ret |-> U16(cur1 + cur2),
                            byte |-> align(BitOr(b1,
                                        GetSecondPart(Rd(a, i + 1), mask2, j, cur2))),
                            reads |-> {i, i + 1},
                            ub |-> FALSE]
                 ELSE [ret |-> cur1, byte |-> align(b1), reads |-> {i}, ub |-> FALSE]

(***************************************************************************)
(* The heap and the record of the last call.                               *)
(***************************************************************************)
Blocks == 1..MaxBlocks

FreeBlock == [live |-> FALSE, bytes |-> NoBytes]

\* The storage bs->array points to: no byte at all for a NULL array.
Storage(h, arr) == IF arr = NULL THEN NoBytes ELSE h[arr].bytes

NoCall ==
    [op |-> "none", byte |-> 0, offset |-> 0, n |-> 0, ret |-> 0,
     written |-> {}, reads |-> {}, before |-> NoBytes, outBefore |-> 0,
     lenBefore |-> 0, arrBefore |-> NULL, text |-> <<>>, failed |-> FALSE,
     putByte |-> 0, putOffset |-> 0, putN |-> 0, putRet |-> 0,
     buffer |-> NULL, liveBefore |-> {}]

(***************************************************************************)
(* Specification SpecBits: a buffer of up to MaxBits bits, one             *)
(* BitStreamPutByte within the buffer's storage, and BitStreamGetByte      *)
(* calls (anywhere on a fresh buffer; at the written place after a put).   *)
(***************************************************************************)
\* Contents a buffer can hold before the call (every byte alike).
InitBytes == {0, 255}
\* The caller's byte before a get.
InitOut == {238}
\* Offsets of the get calls: in and around the buffer, and the top of the
\* 16-bit range.
GetOffsets == (0..(MaxBits + BITS_PER_BYTE)) \cup {2^16 - 8, 2^16 - 1}
Widths == 1..BITS_PER_BYTE

InitBits ==
    /\ bs = "live"
    /\ nbits \in 0..MaxBits
    /\ array = IF nbits = 0 THEN NULL ELSE 1
    /\ \E v \in InitBytes :
          heap = [b \in Blocks |->
                    IF b = 1 /\ nbits > 0
                    THEN [live |-> TRUE, bytes |-> Filled(ByteCount(nbits), v)]
                    ELSE FreeBlock]
    /\ status = "ok"
    /\ out \in InitOut
    /\ pc = "idle"
    /\ bitsCopied = 0
    /\ inp = 0
    /\ src = "zeros"
    /\ last = NoCall

\* BitStreamPutByte(bs, byte, offset, n)
BitStreamPutByte ==
    /\ status = "ok" /\ bs = "live" /\ pc = "idle" /\ last.op = "none"
    /\ array # NULL
    /\ \E byte \in 0..255, offset \in 0..MaxBits, n \in Widths :
          /\ offset + n <= BITS_PER_BYTE * ByteCount(nbits)
          /\ LET r == PutByte(Storage(heap, array), byte, offset, n)
             IN  /\ heap' = [heap EXCEPT ![array].bytes = r.a]
                 /\ status' = IF r.ub THEN "ub" ELSE "ok"
                 /\ last' = [NoCall EXCEPT !.op = "put", !.byte = byte,
                                !.offset = offset, !.n = n, !.ret = r.ret,
                                !.written = r.written,
                                !.before = Storage(heap, array),
                                !.lenBefore = nbits, !.arrBefore = array]
    /\ UNCHANGED <<bs, array, nbits, out, pc, bitsCopied, inp, src>>

\* BitStreamGetByte(bs, &out, offset, n)
BitStreamGetByte ==
    /\ status = "ok" /\ bs = "live" /\ pc = "idle" /\ last.op \in {"none", "put"}
    /\ \E offset \in GetOffsets, n \in Widths :
          /\ last.op = "put" => (offset = last.offset /\ n = last.n)
          /\ LET r == GetByte(Storage(heap, array), nbits, out, offset, n)
             IN  /\ out' = r.byte
                 /\ status' = IF r.ub THEN "ub" ELSE "ok"
                 /\ last' = [NoCall EXCEPT !.op = "get",
                                !.offset = offset, !.n = n, !.ret = r.ret,
                                !.reads = r.reads,
                                !.before = Storage(heap, array),
                                !.outBefore = out,
                                !.lenBefore = nbits, !.arrBefore = array,
                                !.putByte = last.byte, !.putOffset = last.offset,
                                !.putN = last.n, !.putRet = last.ret]
    /\ UNCHANGED <<bs, array, nbits, heap, pc, bitsCopied, inp, src>>

NextBits == BitStreamPutByte \/ BitStreamGetByte

SpecBits == InitBits /\ [][NextBits]_vars

(***************************************************************************)
(* Claims checked under SpecBits.                                          *)
(***************************************************************************)
\* C1: a get at the offset and width of the preceding put, inside the
\* buffer (offset + n <= bit_length), returns n after the put returned n,
\* and stores the low n bits of the written value, right-aligned.
C1_RoundTrip ==
    (/\ last.op = "get"
     /\ last.putN > 0
     /\ last.putOffset = last.offset
     /\ last.putN = last.n
     /\ last.offset + last.n <= nbits)
    => (/\ status = "ok"
        /\ last.putRet = last.n
        /\ last.ret = last.n
        /\ out = last.putByte % (2^last.n))

\* A 5-bit field spanning bytes 0 and 1 written from a value with higher
\* bits set, and read back.
C1_Witness ==
    /\ last.op = "get"
    /\ last.putN = 5 /\ last.n = 5
    /\ last.putOffset = 6 /\ last.offset = 6
    /\ last.putByte = 255
    /\ last.ret = 5
    /\ out = 31

\* C2: a put inside the buffer changes no bit outside positions
\* offset .. offset+n-1, writes at most bytes offset/8 and offset/8 + 1,
\* and leaves bit_length and the storage size unchanged.
C2_PutFrame ==
    (/\ last.op = "put"
     /\ last.offset + last.n <= last.lenBefore)
    => LET after == Storage(heap, array)
           i == last.offset \div BITS_PER_BYTE
       IN  /\ status = "ok"
           /\ nbits = last.lenBefore
           /\ array = last.arrBefore
           /\ after.size = last.before.size
           /\ last.written \subseteq {i, i + 1}
           /\ \A k \in 0..(after.size - 1) :
                 k \notin last.written => Rd(after, k) = Rd(last.before, k)
           /\ \A p \in 0..(BITS_PER_BYTE * after.size - 1) :
                 (p < last.offset \/ p >= last.offset + last.n)
                 => BitAt(after, p) = BitAt(last.before, p)

\* 8 zero bits written at bit offset 4 of a buffer of all-one bytes: bits
\* 0-3 of byte 0 and bits 4-7 of byte 1 are still set.
C2_Witness ==
    /\ last.op = "put"
    /\ last.offset = 4 /\ last.n = 8 /\ last.byte = 0
    /\ last.lenBefore >= 12
    /\ Rd(last.before, 0) = 255 /\ Rd(last.before, 1) = 255
    /\ Rd(Storage(heap, array), 0) = 240
    /\ Rd(Storage(heap, array), 1) = 15
    /\ last.written = {0, 1}

\* C9: a get with offset + n > bit_length (the sum not reduced to 16 bits)
\* returns 0, reads no byte of storage and leaves the caller's byte as it
\* was.
C9_OutOfRangeRejected ==
    (/\ last.op = "get"
     /\ last.offset + last.n > last.lenBefore)
    => (/\ status = "ok"
        /\ last.ret = 0
        /\ last.reads = {}
        /\ out = last.outBefore)

\* A get of 8 bits at offset 65535 of a buffer of at least 8 bits: the
\* 16-bit sum would be 7, inside the buffer.
C9_Witness ==
    /\ last.op = "get"
    /\ last.offset = 2^16 - 1 /\ last.n = 8
    /\ last.lenBefore >= 8
    /\ last.ret = 0
    /\ out \in InitOut

(***************************************************************************)
(* Specification SpecFill: BitStreamFill on a buffer as BitStreamCreate    *)
(* leaves it (zeroed storage of ByteCount(nbits) bytes), one loop          *)
(* iteration per step.  The source is long enough for every byte read.     *)
(***************************************************************************)
\* Bit lengths: the small ones, and the last eight of the 16-bit range.
FillLengths == (0..MaxFillBits) \cup ((2^16 - BITS_PER_BYTE)..(2^16 - 1))

\* *inp for the source pointer advanced k times.
SrcByte(s, k) == IF s = "zeros" THEN 0 ELSE U8(37 * k + 1)

InitFill ==
    /\ bs = "live"
    /\ nbits \in FillLengths
    /\ array = IF nbits = 0 THEN NULL ELSE 1
    /\ heap = [b \in Blocks |->
                 IF b = 1 /\ nbits > 0
                 THEN [live |-> TRUE, bytes |-> Zeroed(ByteCount(nbits))]
                 ELSE FreeBlock]
    /\ status = "ok"
    /\ out \in InitOut
    /\ pc = "idle"
    /\ bitsCopied = 0
    /\ inp = 0
    /\ src \in (IF nbits <= MaxFillBits THEN {"zeros", "ramp"} ELSE {"zeros"})
    /\ last = NoCall

\* uint16_t bitsCopied = 0;
BitStreamFill_Enter ==
    /\ status = "ok" /\ bs = "live" /\ pc = "idle"
    /\ pc' = "fill"
    /\ bitsCopied' = 0
    /\ inp' = 0
    /\ last' = [NoCall EXCEPT !.op = "fill", !.lenBefore = nbits]
    /\ UNCHANGED <<bs, array, nbits, heap, status, out, src>>

\* while (bitsCopied < bs->nbits)
\*    bitsCopied += BitStreamPutByte(bs, *inp++, bitsCopied, BITS_PER_BYTE);
BitStreamFill_Step ==
    /\ status = "ok" /\ pc = "fill"
    /\ bitsCopied < nbits
    /\ inp < ByteCount(nbits) + MaxOverrun
    /\ LET r == PutByte(Storage(heap, array), SrcByte(src, inp), bitsCopied,
                        BITS_PER_BYTE)
       IN  /\ heap' = IF array = NULL THEN heap
                      ELSE [heap EXCEPT ![array].bytes = r.a]
           /\ status' = IF r.ub THEN "ub" ELSE "ok"
           /\ bitsCopied' = U16(bitsCopied + r.ret)
           /\ last' = [NoCall EXCEPT !.op = "fillstep",
                          !.byte = SrcByte(src, inp), !.offset = bitsCopied,
                          !.n = BITS_PER_BYTE, !.ret = r.ret,
                          !.written = r.written, !.lenBefore = nbits]
    /\ inp' = inp + 1
    /\ UNCHANGED <<bs, array, nbits, out, pc, src>>

\* return bitsCopied;
BitStreamFill_Return ==
    /\ status = "ok" /\ pc = "fill"
    /\ ~(bitsCopied < nbits)
    /\ pc' = "done"
    /\ last' = [NoCall EXCEPT !.op = "fillret", !.ret = bitsCopied,
                   !.lenBefore = nbits]
    /\ UNCHANGED <<bs, array, nbits, heap, status, out, bitsCopied, inp, src>>

NextFill == BitStreamFill_Enter \/ BitStreamFill_Step \/ BitStreamFill_Return

SpecFill == InitFill /\ [][NextFill]_vars

\* C10: BitStreamFill makes exactly ByteCount(bit_length) byte writes, at
\* offsets 0, 8, 16, ... each once, and then returns, for every bit_length
\* of the 16-bit range.
C10_FillTerminates ==
    /\ pc \in {"fill", "done"} => inp <= ByteCount(nbits)
    /\ last.op = "fillstep" => last.offset = BITS_PER_BYTE * (inp - 1)
    /\ pc = "done" => inp = ByteCount(nbits)

(***************************************************************************)
(* xtoi and strtox.  A character is its ASCII code.                        *)
(***************************************************************************)
\* The result of xtoi when assert(0) stops the program.
Abort == -1

\* NDEBUG: the build compiles assert out, and the last branch leaves ll as
\* it was, uninitialized; ll0 is the value it then holds.  The third test
\* is the source's  c >= 'A' && c <- 'F',  that is  c < -70.
xtoi(c, NDEBUG, ll0) ==
    IF c >= 48 /\ c <= 57 THEN c - 48
    ELSE IF c >= 97 /\ c <= 102 THEN c - 97 + 10
    ELSE IF c >= 65 /\ c < -70 THEN c - 65 + 10
    ELSE IF NDEBUG THEN ll0
    ELSE Abort

\* The while loop of strtox, from (i, j): in is 1-indexed here, so the
\* source's in[i] is in[i + 1].
RECURSIVE strtox_loop(_, _, _, _, _, _, _)
strtox_loop(in, a, size, i, j, NDEBUG, ll0) ==
    IF ~(i < Len(in)) THEN [a |-> a, ret |-> j, status |-> "ok"]
    ELSE LET ll == xtoi(in[i + 1], NDEBUG, ll0)
             uu == xtoi(in[i + 2], NDEBUG, ll0)
         IN  IF ll = Abort \/ uu = Abort
             THEN [a |-> a, ret |-> 0, status |-> "abort"]
             ELSE IF ~InBounds(a, j)
             THEN [a |-> a, ret |-> 0, status |-> "ub"]
             ELSE LET a1 == Wr(a, j, U8(BitOr(Shl(ll, 4), uu)))
                  IN  IF j + 1 >= size
                      THEN [a |-> a1, ret |-> -1, status |-> "ok"]
                      ELSE strtox_loop(in, a1, size, i + 2, j + 1, NDEBUG, ll0)

\* strtox(in, out, size) writing into storage a.  Texts are shorter than
\* 2^15 characters, so  short len = strlen(in)  keeps the length.
strtox(in, a, size, NDEBUG, ll0) ==
    IF Len(in) % 2 = 1
    THEN LET d == xtoi(in[1], NDEBUG, ll0)
         IN  IF d = Abort THEN [a |-> a, ret |-> 0, status |-> "abort"]
             ELSE IF ~InBounds(a, 0) THEN [a |-> a, ret |-> 0, status |-> "ub"]
             ELSE strtox_loop(in, Wr(a, 0, U8(d)), size, 1, 1, NDEBUG, ll0)
    ELSE strtox_loop(in, a, size, 0, 0, NDEBUG, ll0)

(***************************************************************************)
(* BitStreamCreate, BitStreamRealloc, BitStreamDelete, BitStreamFillAscii  *)
(* on the heap.                                                            *)
(***************************************************************************)
LiveBlocks(h) == {b \in Blocks : h[b].live}

\* The block malloc/calloc/the caller's allocation returns: block ids carry
\* no meaning, so the lowest free one stands for any.
FreshBlock(h) == CHOOSE b \in Blocks \ LiveBlocks(h) :
                    \A c \in Blocks \ LiveBlocks(h) : b <= c

\* realloc(p, size) that succeeds: the old bytes up to the smaller size,
\* every byte of the extension the undefined value g.
Resized(a, size, g) ==
    [size |-> size,
     nz |-> [k \in {k \in 0..(size - 1) :
                      IF k < a.size THEN Rd(a, k) # 0 ELSE g # 0} |->
                IF k < a.size THEN Rd(a, k) ELSE g]]

\* BitStreamRealloc(bs, buffer, n) for bs != NULL, on heap h with
\* bs->array = arr.  ok: realloc succeeds; g: the bytes it leaves undefined.
Realloc(h, arr, buffer, n, len, ok, g) ==
    IF arr # NULL
    THEN IF buffer # NULL
         THEN [heap |-> [h EXCEPT ![arr] = FreeBlock],
               array |-> buffer, nbits |-> n]
         ELSE IF n # 0
              THEN IF ok
                   THEN [heap |-> [h EXCEPT ![arr].bytes =
                                      Resized(h[arr].bytes, ByteCount(n), g)],
                         array |-> arr, nbits |-> n]
                   ELSE [heap |-> h, array |-> NULL, nbits |-> n]
              ELSE [heap |-> h, array |-> NULL, nbits |-> n]
    ELSE [heap |-> h, array |-> buffer, nbits |-> n]

\* BitStreamFillAscii(bs, inp) for bs != NULL.
FillAscii(h, arr, len, text, ok, g, NDEBUG, ll0) ==
    LET size == U16((Len(text) + 1) \div 2)
        re == Realloc(h, arr, NULL, U16(size * BITS_PER_BYTE), len, ok, g)
        x == strtox(text, Storage(re.heap, re.array), size, NDEBUG, ll0)
    IN  [heap |-> IF re.array = NULL THEN re.heap
                  ELSE [re.heap EXCEPT ![re.array].bytes = x.a],
         array |-> re.array,
         nbits |-> re.nbits,
         status |-> x.status,
         ret |-> U16(size * BITS_PER_BYTE)]

\* Values an uninitialized ll is taken to hold, and bytes realloc leaves in
\* an extension.
UninitValues == {0, 11, 255}
Garbage == {0, 165}

\* BitStreamFillAscii(bs, text) with text drawn from texts; oks: whether
\* realloc may fail; once: a single call per run.
BitStreamFillAscii(texts, oks, once) ==
    /\ status = "ok" /\ bs = "live" /\ pc = "idle"
    /\ once => last.op = "none"
    /\ \E text \in texts, ok \in oks, g \in Garbage,
          NDEBUG \in BOOLEAN, ll0 \in UninitValues :
          LET r == FillAscii(heap, array, nbits, text, ok, g, NDEBUG, ll0)
          IN  /\ heap' = r.heap
              /\ array' = r.array
              /\ nbits' = r.nbits
              /\ status' = r.status
              /\ last' = [NoCall EXCEPT !.op = "fillascii", !.text = text,
                             !.ret = r.ret,
                             !.failed = (array # NULL /\ r.nbits # 0 /\ ~ok),
                             !.lenBefore = nbits, !.arrBefore = array,
                             !.liveBefore = LiveBlocks(heap)]
    /\ UNCHANGED <<bs, out, pc, bitsCopied, inp, src>>

(***************************************************************************)
(* Specification SpecMem: create, rebind/resize, hex fill and delete of    *)
(* one BitStream over a heap of MaxBlocks storage blocks; every            *)
(* allocation may fail.                                                    *)
(***************************************************************************)
MemLengths == {0, 8, 9}
\* "", "1c", "abc"
MemTexts == {<<>>, <<49, 99>>, <<97, 98, 99>>}

InitMem ==
    /\ bs = "null"
    /\ array = NULL
    /\ nbits = 0
    /\ heap = [b \in Blocks |-> FreeBlock]
    /\ status = "ok"
    /\ out \in InitOut
    /\ pc = "idle"
    /\ bitsCopied = 0
    /\ inp = 0
    /\ src = "zeros"
    /\ last = NoCall

\* BitStreamCreate(n).  After a failed malloc, and after the free(bs) that
\* follows a failed calloc, bs is NULL and  bs->nbits = nbits  stores
\* through it: undefined behaviour.
BitStreamCreate ==
    /\ status = "ok" /\ bs = "null" /\ pc = "idle"
    /\ \E n \in MemLengths, mallocOk \in BOOLEAN, callocOk \in BOOLEAN :
          LET call == [NoCall EXCEPT !.op = "create", !.n = n,
                          !.liveBefore = LiveBlocks(heap)]
          IN  /\ (mallocOk /\ n # 0 /\ callocOk) => LiveBlocks(heap) # Blocks
              /\ IF ~mallocOk \/ (n # 0 /\ ~callocOk)
                 THEN /\ status' = "ub"
                      /\ last' = [call EXCEPT !.failed = TRUE]
                      /\ UNCHANGED <<bs, array, nbits, heap>>
                 ELSE /\ bs' = "live"
                      /\ nbits' = n
                      /\ IF n # 0
                         THEN /\ array' = FreshBlock(heap)
                              /\ heap' = [heap EXCEPT ![FreshBlock(heap)] =
                                            [live |-> TRUE,
                                             bytes |-> Zeroed(ByteCount(n))]]
                         ELSE /\ array' = NULL
                              /\ heap' = heap
                      /\ status' = "ok"
                      /\ last' = call
    /\ UNCHANGED <<out, pc, bitsCopied, inp, src>>

\* BitStreamRealloc(bs, buffer, n): buffer is NULL or a block the caller
\* has just allocated and hands over.
BitStreamRealloc ==
    /\ status = "ok" /\ bs = "live" /\ pc = "idle"
    /\ \E n \in MemLengths, give \in BOOLEAN, ok \in BOOLEAN, g \in Garbage :
          /\ give => LiveBlocks(heap) # Blocks
          /\ LET buffer == IF give THEN FreshBlock(heap) ELSE NULL
                 h == IF give
                      THEN [heap EXCEPT ![buffer] =
                              [live |-> TRUE,
                               bytes |-> Zeroed(IF n = 0 THEN 1 ELSE ByteCount(n))]]
                      ELSE heap
                 r == Realloc(h, array, buffer, n, nbits, ok, g)
             IN  /\ heap' = r.heap
                 /\ array' = r.array
                 /\ nbits' = r.nbits
                 /\ last' = [NoCall EXCEPT !.op = "realloc", !.n = n,
                                !.buffer = buffer,
                                !.failed = (array # NULL /\ ~give /\ n # 0 /\ ~ok),
                                !.lenBefore = nbits, !.arrBefore = array,
                                !.liveBefore = LiveBlocks(heap)]
    /\ UNCHANGED <<bs, status, out, pc, bitsCopied, inp, src>>

\* BitStreamDelete(bs) for bs != NULL; the caller drops its pointer.
BitStreamDelete ==
    /\ status = "ok" /\ bs = "live" /\ pc = "idle"
    /\ heap' = IF array # NULL THEN [heap EXCEPT ![array] = FreeBlock] ELSE heap
    /\ bs' = "null"
    /\ array' = NULL
    /\ nbits' = 0
    /\ last' = [NoCall EXCEPT !.op = "delete", !.lenBefore = nbits,
                   !.arrBefore = array, !.liveBefore = LiveBlocks(heap)]
    /\ UNCHANGED <<status, out, pc, bitsCopied, inp, src>>

NextMem ==
    \/ BitStreamCreate
    \/ BitStreamRealloc
    \/ BitStreamDelete
    \/ BitStreamFillAscii(MemTexts, BOOLEAN, FALSE)

SpecMem == InitMem /\ [][NextMem]_vars

\* C3: a live buffer has no storage exactly when its bit_length is 0.
C3_StorageIffLength ==
    (bs = "live" /\ status = "ok") => (array = NULL <=> nbits = 0)

\* C7: a BitStreamCreate whose allocation fails returns NULL, touching no
\* field of an object it does not have, and leaves no block allocated.
C7_CreateFailureReturnsNull ==
    (last.op = "create" /\ last.failed)
    => (/\ status = "ok"
        /\ bs = "null"
        /\ LiveBlocks(heap) = last.liveBefore)

\* C8: BitStreamRealloc(bs, NULL, 0) on a buffer with storage frees the
\* storage and empties the buffer, and at no time is a block allocated
\* that the buffer does not own.
C8_ResizeToZeroReleases ==
    /\ (/\ last.op = "realloc"
        /\ last.buffer = NULL /\ last.n = 0
        /\ last.arrBefore # NULL)
       => (/\ ~heap[last.arrBefore].live
           /\ array = NULL
           /\ nbits = 0)
    /\ \A b \in LiveBlocks(heap) : bs = "live" /\ array = b

(***************************************************************************)
(* Specification SpecHex: one BitStreamFillAscii on a buffer that owns     *)
(* zeroed storage; realloc succeeds.  The texts are every string of up to  *)
(* MaxHexLen characters over HexChars, and the two shortest texts whose    *)
(* bit count no longer fits the 16-bit nbits.                              *)
(***************************************************************************)
\* '0' '1' '9' 'a' 'c' 'f' 'A' 'F'
HexChars == {48, 49, 57, 97, 99, 102, 65, 70}

\* The least number of bytes whose bit count is 2^16.
WrapBytes == (2^16) \div BITS_PER_BYTE

\* "000...0" of 2 * WrapBytes - 1 and of 2 * WrapBytes characters.
WrapTexts == {[k \in 1..(2 * WrapBytes - 1) |-> 48], [k \in 1..(2 * WrapBytes) |-> 48]}

\* "1c0111001f010100061a024b53535009181c"
ExampleText ==
    <<49, 99, 48, 49, 49, 49, 48, 48, 49, 102, 48, 49, 48, 49, 48,
       48, 48, 54, 49, 97, 48, 50, 52, 98, 53, 51, 53, 51, 53, 48,
       48, 57, 49, 56, 49, 99>>

\* 1c 01 11 00 1f 01 01 00 06 1a 02 4b 53 53 50 09 18 1c
ExampleBytes ==
    <<28, 1, 17, 0, 31, 1, 1, 0, 6, 26, 2, 75, 83, 83, 80, 9, 24,
       28>>

HexTexts ==
    UNION {[1..n -> HexChars] : n \in 0..MaxHexLen} \cup WrapTexts \cup {ExampleText}

HexInitBits == {8, 24}

InitHex ==
    /\ bs = "live"
    /\ nbits \in HexInitBits
    /\ array = 1
    /\ heap = [b \in Blocks |->
                 IF b = 1 THEN [live |-> TRUE, bytes |-> Zeroed(ByteCount(nbits))]
                 ELSE FreeBlock]
    /\ status = "ok"
    /\ out \in InitOut
    /\ pc = "idle"
    /\ bitsCopied = 0
    /\ inp = 0
    /\ src = "zeros"
    /\ last = NoCall

NextHex == BitStreamFillAscii(HexTexts, {TRUE}, TRUE)

SpecHex == InitHex /\ [][NextHex]_vars

\* The value of a hex digit [0-9a-fA-F].
HexVal(c) ==
    IF c >= 48 /\ c <= 57 THEN c - 48
    ELSE IF c >= 97 /\ c <= 102 THEN c - 87
    ELSE c - 55

IsHexDigit(c) ==
    \/ c >= 48 /\ c <= 57
    \/ c >= 97 /\ c <= 102
    \/ c >= 65 /\ c <= 70

IsLowerHexDigit(c) == (c >= 48 /\ c <= 57) \/ (c >= 97 /\ c <= 102)

ToLower(c) == IF c >= 65 /\ c <= 90 THEN c + 32 ELSE c

\* C4: a text of hex digits, upper case included, decodes, and to the
\* bytes its lower-case form decodes to.  (Texts short enough for their bit
\* count to fit 16 bits.)
C4_UppercaseDecodes ==
    (/\ last.op = "fillascii"
     /\ Len(last.text) < 2 * WrapBytes - 1
     /\ \A k \in 1..Len(last.text) : IsHexDigit(last.text[k]))
    => LET lower == [k \in 1..Len(last.text) |-> ToLower(last.text[k])]
           size == (Len(lower) + 1) \div 2
           want == strtox(lower, Zeroed(size), size, FALSE, 0)
       IN  /\ status = "ok"
           /\ want.status = "ok"
           /\ Storage(heap, array) = want.a

\* C5: a text of 2m characters over [0-9a-f] leaves bit_length 8*m and
\* byte k = 16*val(text[2k]) + val(text[2k+1]), k in 0..m-1.
C5_EvenDecode ==
    (/\ last.op = "fillascii"
     /\ Len(last.text) % 2 = 0
     /\ \A k \in 1..Len(last.text) : IsLowerHexDigit(last.text[k]))
    => LET m == Len(last.text) \div 2
       IN  /\ status = "ok"
           /\ nbits = BITS_PER_BYTE * m
           /\ \A k \in 0..(m - 1) :
                 /\ InBounds(Storage(heap, array), k)
                 /\ Rd(Storage(heap, array), k) =
                       16 * HexVal(last.text[2 * k + 1]) + HexVal(last.text[2 * k + 2])

\* C6: a text of 2m+1 hex digits leaves m+1 bytes: byte 0 the value of the
\* first character, byte k = 16*val(text[2k-1]) + val(text[2k]), k in 1..m.
C6_OddDecode ==
    (/\ last.op = "fillascii"
     /\ Len(last.text) % 2 = 1
     /\ \A k \in 1..Len(last.text) : IsHexDigit(last.text[k]))
    => LET m == Len(last.text) \div 2
       IN  /\ status = "ok"
           /\ Storage(heap, array).size = m + 1
           /\ nbits = BITS_PER_BYTE * (m + 1)
           /\ Rd(Storage(heap, array), 0) = HexVal(last.text[1])
           /\ \A k \in 1..m :
                 Rd(Storage(heap, array), k) =
                    16 * HexVal(last.text[2 * k]) + HexVal(last.text[2 * k + 1])

(***************************************************************************)
(* The decoder on lower-case texts whose bit count fits 16 bits (these     *)
(* hold under SpecHex; they mark the extent of the failures of C4-C6).     *)
(***************************************************************************)
LowerInRange ==
    /\ last.op = "fillascii"
    /\ Len(last.text) < 2 * WrapBytes - 1
    /\ \A k \in 1..Len(last.text) : IsLowerHexDigit(last.text[k])

DecodeInRange_Even == LowerInRange => C5_EvenDecode

DecodeInRange_Odd == LowerInRange => C6_OddDecode

DecodeExample ==
    (last.op = "fillascii" /\ last.text = ExampleText)
    => (/\ status = "ok"
        /\ nbits = BITS_PER_BYTE * Len(ExampleBytes)
        /\ Storage(heap, array).size = Len(ExampleBytes)
        /\ \A k \in 1..Len(ExampleBytes) :
              Rd(Storage(heap, array), k - 1) = ExampleBytes[k])

====
